---- MODULE Spec2Model ----
(***************************************************************************)
(* Model of submit.py: the B12 application submission script.              *)
(*                                                                         *)
(* Python strings are sequences of code points (naturals); byte strings    *)
(* are sequences of byte values.  A value that may be None is a record     *)
(* [isNone, s].  An argument of create_payload is a record [t, s, n]       *)
(* whose t is "str", "null", "int" or "bytes".                             *)
(***************************************************************************)
EXTENDS Integers, Sequences, FiniteSets, TLC

VARIABLES
    env_set,      \* the required variables that are present in os.environ
    pc,           \* position of main()
    vals,         \* main's locals secret, name, email, ... by variable name
    timestamp,    \* main's local timestamp
    payload,      \* main's local payload (a str)
    signature,    \* main's local signature
    posts,        \* the calls of requests.post made so far
    response,     \* main's local response
    stdout,       \* what was printed to standard output
    stderr,       \* what was printed to standard error
    exit_code,    \* <<>> while the process runs, <<n>> once it has exited
    argsA,        \* direct call of create_payload: the six arguments
    outA,         \*   and what it returned
    argsB,        \* a second direct call of create_payload
    outB

vars == <<env_set, pc, vals, timestamp, payload, signature, posts, response,
          stdout, stderr, exit_code, argsA, outA, argsB, outB>>

runVars == <<env_set, pc, vals, timestamp, payload, signature, posts,
             response, stdout, stderr, exit_code>>

callVars == <<argsA, outA, argsB, outB>>

(***************************************************************************)
(* Bounds of the model.                                                    *)
(***************************************************************************)
MaxSecretLen == 5     \* longest raw value of B12_SECRET
MaxFieldLen == 1      \* longest raw value of the five other variables
MaxClockMs == 1       \* the clock reads 0..MaxClockMs milliseconds
MaxArgChars == 2      \* characters over the six arguments of one direct call
MaxPairChars == 3     \* characters over the arguments of two direct calls

(***************************************************************************)
(* Strings.                                                                *)
(***************************************************************************)
S_timestamp == <<116, 105, 109, 101, 115, 116, 97, 109, 112>>
S_name == <<110, 97, 109, 101>>
S_email == <<101, 109, 97, 105, 108>>
S_resume_link == <<114, 101, 115, 117, 109, 101, 95, 108, 105, 110, 107>>
S_repository_link ==
    <<114, 101, 112, 111, 115, 105, 116, 111, 114, 121, 95, 108, 105, 110, 107>>
S_action_run_link ==
    <<97, 99, 116, 105, 111, 110, 95, 114, 117, 110, 95, 108, 105, 110, 107>>
S_null == <<110, 117, 108, 108>>
S_sha256_eq == <<115, 104, 97, 50, 53, 54, 61>>

\* The parameters of create_payload, in the order of its signature.
Fields == <<"timestamp", "name", "email", "resume_link", "repository_link",
            "action_run_link">>

FieldSet == {Fields[i] : i \in 1..Len(Fields)}

Str(s) == [t |-> "str", s |-> s, n |-> 0]
PyNone == [t |-> "null", s |-> <<>>, n |-> 0]
PyInt(n) == [t |-> "int", s |-> <<>>, n |-> n]
\* An object json cannot serialise.
PyBytes == [t |-> "bytes", s |-> <<>>, n |-> 0]

RECURSIVE ConcatRange(_, _, _)
ConcatRange(parts, lo, hi) ==
    IF lo > hi THEN <<>>
    ELSE IF lo = hi THEN parts[lo]
    ELSE LET mid == (lo + hi) \div 2
         IN ConcatRange(parts, lo, mid) \o ConcatRange(parts, mid + 1, hi)

\* "".join(parts)
Concat(parts) == ConcatRange(parts, 1, Len(parts))

\* One lowercase hexadecimal digit.
HexDigit(d) == IF d < 10 THEN 48 + d ELSE 87 + d

RECURSIVE DecimalDigits(_)
DecimalDigits(n) ==
    IF n < 10 THEN <<48 + n>> ELSE DecimalDigits(n \div 10) \o <<48 + (n % 10)>>

\* str(n) of an int.
int_repr(n) == IF n < 0 THEN <<45>> \o DecimalDigits(-n) ELSE DecimalDigits(n)

\* a < b for str: by code point, a proper prefix first.
RECURSIVE StrLess(_, _)
StrLess(a, b) ==
    IF b = <<>> THEN FALSE
    ELSE IF a = <<>> THEN TRUE
    ELSE IF Head(a) # Head(b) THEN Head(a) < Head(b)
    ELSE StrLess(Tail(a), Tail(b))

\* The characters str.strip() removes (those below 256).
IsWhitespace(c) == c \in {9, 10, 11, 12, 13, 28, 29, 30, 31, 32, 133, 160}

RECURSIVE lstrip(_)
lstrip(s) ==
    IF s # <<>> /\ IsWhitespace(Head(s)) THEN lstrip(Tail(s)) ELSE s

RECURSIVE rstrip(_)
rstrip(s) ==
    IF s # <<>> /\ IsWhitespace(s[Len(s)])
    THEN rstrip(SubSeq(s, 1, Len(s) - 1))
    ELSE s

\* value.strip()
strip(s) == rstrip(lstrip(s))

\* s[:n]
Prefix(s, n) == SubSeq(s, 1, IF Len(s) < n THEN Len(s) ELSE n)

\* One code point as UTF-8 (up to three bytes: the code points used here).
utf8_char(c) ==
    IF c < 128 THEN <<c>>
    ELSE IF c < 2048 THEN <<192 + (c \div 64), 128 + (c % 64)>>
    ELSE <<224 + (c \div 4096), 128 + ((c \div 64) % 64), 128 + (c % 64)>>

\* s.encode('utf-8')
encode_utf8(s) == Concat([i \in 1..Len(s) |-> utf8_char(s[i])])

(***************************************************************************)
(* json.dumps(payload, ensure_ascii=False, separators=(',', ':'),          *)
(* sort_keys=True) on a dict: a sequence of <<key, value>> in insertion    *)
(* order.                                                                  *)
(***************************************************************************)
\* ESCAPE of json.encoder: the characters that are replaced.
needs_escape(c) == c < 32 \/ c = 34 \/ c = 92

\* ESCAPE_DCT of json.encoder: what such a character is replaced by.
escape_dct(c) ==
    IF c = 92 THEN <<92, 92>>
    ELSE IF c = 34 THEN <<92, 34>>
    ELSE IF c = 8 THEN <<92, 98>>
    ELSE IF c = 12 THEN <<92, 102>>
    ELSE IF c = 10 THEN <<92, 110>>
    ELSE IF c = 13 THEN <<92, 114>>
    ELSE IF c = 9 THEN <<92, 116>>
    ELSE <<92, 117, 48, 48, HexDigit(c \div 16), HexDigit(c % 16)>>

\* A variant that leaves a backslash as it is.
escape_char_keep_backslash(c) ==
    IF needs_escape(c) /\ c # 92 THEN escape_dct(c) ELSE <<c>>

\* What one character of a string becomes.
escape_char(c) == IF needs_escape(c) THEN escape_dct(c) ELSE <<c>>

\* The \uXXXX escape of ensure_ascii=True (code points below 65536).
escape_char_ascii(c) ==
    IF c < 127 THEN escape_char(c)
    ELSE <<92, 117, HexDigit(c \div 4096), HexDigit((c \div 256) % 16),
           HexDigit((c \div 16) % 16), HexDigit(c % 16)>>

\* Whether the character is replaced, by either encoder.
is_replaced(c, ensure_ascii) == needs_escape(c) \/ (ensure_ascii /\ c > 126)

\* encode_basestring / encode_basestring_ascii: the quoted string.  A string
\* in which nothing is replaced is copied as it is.
py_encode_basestring(s, ensure_ascii) ==
    IF \A i \in 1..Len(s) : ~is_replaced(s[i], ensure_ascii)
    THEN <<34>> \o s \o <<34>>
    ELSE <<34>>
         \o Concat([i \in 1..Len(s) |->
                       IF ensure_ascii THEN escape_char_ascii(s[i])
                       ELSE escape_char(s[i])])
         \o <<34>>

\* Whether json can serialise the value at all.
Serializable(v) == v.t \in {"str", "null", "int"}

\* One value of the dict.
encode_value(v, ensure_ascii) ==
    CASE v.t = "str" -> py_encode_basestring(v.s, ensure_ascii)
      [] v.t = "null" -> S_null
      [] v.t = "int" -> int_repr(v.n)
      [] OTHER -> <<>>

RECURSIVE insert_sorted(_, _)
insert_sorted(item, sorted) ==
    IF sorted = <<>> THEN <<item>>
    ELSE IF StrLess(item[1], Head(sorted)[1]) THEN <<item>> \o sorted
    ELSE <<Head(sorted)>> \o insert_sorted(item, Tail(sorted))

RECURSIVE sorted_items(_)
\* sorted(dct.items()): by key.
sorted_items(items) ==
    IF items = <<>> THEN <<>>
    ELSE insert_sorted(items[Len(items)],
                       sorted_items(SubSeq(items, 1, Len(items) - 1)))

RECURSIVE join_items(_, _, _, _)
join_items(items, ensure_ascii, item_sep, key_sep) ==
    IF items = <<>> THEN <<>>
    ELSE py_encode_basestring(Head(items)[1], ensure_ascii)
         \o key_sep
         \o encode_value(Head(items)[2], ensure_ascii)
         \o (IF Len(items) > 1 THEN item_sep ELSE <<>>)
         \o join_items(Tail(items), ensure_ascii, item_sep, key_sep)

\* json.dumps of a dict: [raised, value].
json_dumps(dct, ensure_ascii, item_sep, key_sep, sort_keys) ==
    IF \E i \in 1..Len(dct) : ~Serializable(dct[i][2])
    THEN [raised |-> "TypeError", value |-> <<>>]
    ELSE [raised |-> "",
          value |-> <<123>>
                    \o join_items(IF sort_keys THEN sorted_items(dct) ELSE dct,
                                  ensure_ascii, item_sep, key_sep)
                    \o <<125>>]

\* The dict literal of create_payload, in insertion order.
payload_dict(timestamp_, name, email, resume_link, repository_link, action_run_link) ==
    << <<S_timestamp, timestamp_>>,
       <<S_name, name>>,
       <<S_email, email>>,
       <<S_resume_link, resume_link>>,
       <<S_repository_link, repository_link>>,
       <<S_action_run_link, action_run_link>> >>

create_payload_unsorted(timestamp_, name, email, resume_link, repository_link, action_run_link) ==
    json_dumps(payload_dict(timestamp_, name, email, resume_link,
                            repository_link, action_run_link),
               FALSE, <<44>>, <<58>>, FALSE)

create_payload(timestamp_, name, email, resume_link, repository_link, action_run_link) ==
    json_dumps(payload_dict(timestamp_, name, email, resume_link,
                            repository_link, action_run_link),
               FALSE, <<44>>, <<58>>, TRUE)

\* create_payload on the arguments held in a record.
CallCreatePayload(a) ==
    create_payload(a.timestamp, a.name, a.email, a.resume_link,
                   a.repository_link, a.action_run_link)

(***************************************************************************)
(* compute_signature.  HMAC-SHA256 is a symbolic term of its key and       *)
(* message: two tags are equal exactly when both are.  hmac.new accepts    *)
(* an empty key.                                                           *)
(***************************************************************************)
hmac_sha256_hexdigest(key_bytes, msg_bytes) ==
    [alg |-> "hmac-sha256-hex", key |-> key_bytes, msg |-> msg_bytes]

compute_signature_other_bytes(payload_, secret) ==
    hmac_sha256_hexdigest(encode_utf8(secret), encode_utf8(payload_ \o <<10>>))

compute_signature(payload_, secret) ==
    hmac_sha256_hexdigest(encode_utf8(secret), encode_utf8(payload_))

(***************************************************************************)
(* get_env_variable(name), given value = os.environ.get(name).             *)
(***************************************************************************)
NoValue == [isNone |-> TRUE, s |-> <<>>]
Some(s) == [isNone |-> FALSE, s |-> s]

get_env_variable_unchecked(name, value) ==
    [exits |-> FALSE, value |-> strip(value.s)]

get_env_variable(name, value) ==
    IF value.isNone \/ value.s = <<>>
    THEN [exits |-> TRUE, value |-> <<>>]
    ELSE [exits |-> FALSE, value |-> strip(value.s)]

(***************************************************************************)
(* generate_timestamp(), given the clock's reading: now_ms milliseconds    *)
(* into 2024-01-01T00:00:00 UTC.                                           *)
(***************************************************************************)
\* datetime.isoformat(timespec='milliseconds') of an aware UTC datetime.
isoformat_milliseconds(now_ms) ==
    <<50, 48, 50, 52, 45, 48, 49, 45, 48, 49, 84, 48, 48, 58, 48, 48, 58,
      48 + ((now_ms \div 10000) % 6), 48 + ((now_ms \div 1000) % 10), 46,
      48 + ((now_ms \div 100) % 10), 48 + ((now_ms \div 10) % 10),
      48 + (now_ms % 10), 43, 48, 48, 58, 48, 48>>

IsPrefixAt(s, old, i) ==
    /\ i + Len(old) - 1 <= Len(s)
    /\ SubSeq(s, i, i + Len(old) - 1) = old

RECURSIVE str_replace_from(_, _, _, _)
str_replace_from(s, old, new, i) ==
    IF i > Len(s) THEN <<>>
    ELSE IF IsPrefixAt(s, old, i)
         THEN new \o str_replace_from(s, old, new, i + Len(old))
         ELSE <<s[i]>> \o str_replace_from(s, old, new, i + 1)

\* s.replace(old, new), old not empty.
str_replace(s, old, new) == str_replace_from(s, old, new, 1)

generate_timestamp(now_ms) ==
    str_replace(isoformat_milliseconds(now_ms), <<43, 48, 48, 58, 48, 48>>, <<90>>)

(***************************************************************************)
(* The run of main().                                                      *)
(***************************************************************************)
\* The variables main reads, in the order it reads them.
EnvVars == <<"B12_SECRET", "B12_NAME", "B12_EMAIL", "B12_RESUME_LINK",
             "B12_REPOSITORY_LINK", "B12_ACTION_RUN_LINK">>

EnvVarSet == {EnvVars[i] : i \in 1..Len(EnvVars)}

IndexOf(v) == CHOOSE i \in 1..Len(EnvVars) : EnvVars[i] = v

\* Where main goes after reading v.
AfterVar(v) ==
    IF IndexOf(v) < Len(EnvVars) THEN EnvVars[IndexOf(v) + 1]
    ELSE "generate_timestamp"

\* The characters a raw value is made of: a space and a letter.
EnvAlphabet == {32, 97}

StringsUpTo(alphabet, n) == UNION {[1..k -> alphabet] : k \in 0..n}

MaxRawLen(v) == IF v = "B12_SECRET" THEN MaxSecretLen ELSE MaxFieldLen

\* What os.environ.get(v) can return.
os_environ_get(v) ==
    IF v \in env_set
    THEN {Some(s) : s \in StringsUpTo(EnvAlphabet, MaxRawLen(v))}
    ELSE {NoValue}

\* Response.raise_for_status(): whether it raises HTTPError.
raise_for_status(status_code) == 400 <= status_code /\ status_code < 600

\* What requests.post can do: raise a RequestException or return a response.
StatusCodes == {101, 200, 204, 304, 404, 500}

PostOutcomes ==
    {[kind |-> k, status_code |-> 0] : k \in {"ConnectionError", "Timeout"}}
    \cup {[kind |-> "response", status_code |-> s] : s \in StatusCodes}

NoResponse == [kind |-> "none", status_code |-> 0]

Line(tag, text) == [tag |-> tag, text |-> text]

\* The request submit_application builds and how the call ends.
submit_application(payload_, signature_, outcome) ==
    [request |->
        [method |-> "POST",
         url |-> "https://b12.io/apply/submission",
         data |-> payload_,
         content_type |-> "application/json",
         x_signature_256 |-> [prefix |-> S_sha256_eq, tag |-> signature_],
         timeout |-> 30],
     exits |-> outcome.kind # "response" \/ raise_for_status(outcome.status_code),
     cause |-> IF outcome.kind # "response" THEN outcome.kind ELSE "HTTPError",
     response |-> outcome]

NoSignature == hmac_sha256_hexdigest(<<>>, <<>>)

InitRun ==
    /\ pc = "start"
    /\ vals = [v \in EnvVarSet |-> <<>>]
    /\ timestamp = <<>>
    /\ payload = <<>>
    /\ signature = NoSignature
    /\ posts = <<>>
    /\ response = NoResponse
    /\ stdout = <<>>
    /\ stderr = <<>>
    /\ exit_code = <<>>

EmptyArgs == [f \in FieldSet |-> Str(<<>>)]

InitCall ==
    /\ argsA = EmptyArgs
    /\ outA = CallCreatePayload(EmptyArgs)
    /\ argsB = EmptyArgs
    /\ outB = CallCreatePayload(EmptyArgs)

Init ==
    /\ env_set \in SUBSET EnvVarSet
    /\ InitRun
    /\ InitCall

\* Line 73.
Start ==
    /\ pc = "start"
    /\ stdout' = Append(stdout, Line("banner", <<>>))
    /\ pc' = EnvVars[1]
    /\ UNCHANGED <<env_set, vals, timestamp, payload, signature, posts,
                   response, stderr, exit_code, callVars>>

\* Lines 76-78: the secret, then its length and its first four characters.
ReadSecret ==
    /\ pc = "B12_SECRET"
    /\ \E value \in os_environ_get("B12_SECRET") :
         LET r == get_env_variable("B12_SECRET", value) IN
         IF r.exits
         THEN /\ stderr' = Append(stderr, Line("not set", <<"B12_SECRET">>))
              /\ exit_code' = <<1>>
              /\ pc' = "exited"
              /\ UNCHANGED <<vals, stdout>>
         ELSE /\ vals' = [vals EXCEPT !["B12_SECRET"] = r.value]
              /\ stdout' = stdout
                     \o <<Line("Secret length", int_repr(Len(r.value))),
                          Line("Secret starts with", Prefix(r.value, 4))>>
              /\ pc' = AfterVar("B12_SECRET")
              /\ UNCHANGED <<stderr, exit_code>>
    /\ UNCHANGED <<env_set, timestamp, payload, signature, posts, response,
                   callVars>>

\* Lines 80-84: one of the five other variables.
ReadField(v) ==
    /\ pc = v
    /\ v # "B12_SECRET"
    /\ \E value \in os_environ_get(v) :
         LET r == get_env_variable(v, value) IN
         IF r.exits
         THEN /\ stderr' = Append(stderr, Line("not set", <<v>>))
              /\ exit_code' = <<1>>
              /\ pc' = "exited"
              /\ UNCHANGED vals
         ELSE /\ vals' = [vals EXCEPT ![v] = r.value]
              /\ pc' = AfterVar(v)
              /\ UNCHANGED <<stderr, exit_code>>
    /\ UNCHANGED <<env_set, timestamp, payload, signature, posts, response,
                   stdout, callVars>>

\* Lines 87-88.
GenerateTimestamp ==
    /\ pc = "generate_timestamp"
    /\ \E now_ms \in 0..MaxClockMs :
         /\ timestamp' = generate_timestamp(now_ms)
         /\ stdout' = Append(stdout, Line("Timestamp", timestamp'))
    /\ pc' = "create_payload"
    /\ UNCHANGED <<env_set, vals, payload, signature, posts, response, stderr,
                   exit_code, callVars>>

\* Lines 91-92.  An exception of json.dumps is not caught: the process dies.
CreatePayload ==
    /\ pc = "create_payload"
    /\ LET r == create_payload(Str(timestamp), Str(vals["B12_NAME"]),
                               Str(vals["B12_EMAIL"]),
                               Str(vals["B12_RESUME_LINK"]),
                               Str(vals["B12_REPOSITORY_LINK"]),
                               Str(vals["B12_ACTION_RUN_LINK"])) IN
       IF r.raised # ""
       THEN /\ stderr' = Append(stderr, Line("traceback", <<r.raised>>))
            /\ exit_code' = <<1>>
            /\ pc' = "exited"
            /\ UNCHANGED <<payload, stdout>>
       ELSE /\ payload' = r.value
            /\ stdout' = Append(stdout, Line("Canonical Payload", r.value))
            /\ pc' = "compute_signature"
            /\ UNCHANGED <<stderr, exit_code>>
    /\ UNCHANGED <<env_set, vals, timestamp, signature, posts, response,
                   callVars>>

\* Lines 95-96.
ComputeSignature ==
    /\ pc = "compute_signature"
    /\ signature' = compute_signature(payload, vals["B12_SECRET"])
    /\ stdout' = Append(stdout, Line("HMAC-SHA256 Signature", <<signature'>>))
    /\ pc' = "submit_application"
    /\ UNCHANGED <<env_set, vals, timestamp, payload, posts, response, stderr,
                   exit_code, callVars>>

\* A variant that tries again when the request fails.
SubmitApplicationRetrying ==
    /\ pc = "submit_application"
    /\ \E outcome \in PostOutcomes :
         LET r == submit_application(payload, signature, outcome) IN
         /\ stdout' = Append(stdout, Line("Submitting application", <<>>))
         /\ posts' = Append(posts, r.request)
         /\ IF r.exits
            THEN /\ stderr' = Append(stderr, Line("Error submitting application", <<r.cause>>))
                 /\ pc' = "submit_application"
                 /\ UNCHANGED <<response, exit_code>>
            ELSE /\ response' = r.response
                 /\ pc' = "print_response"
                 /\ UNCHANGED <<stderr, exit_code>>
    /\ UNCHANGED <<env_set, vals, timestamp, payload, signature, callVars>>

\* Lines 99-100 and 54-68: the progress line, then the one call of
\* requests.post.
SubmitApplication ==
    /\ pc = "submit_application"
    /\ \E outcome \in PostOutcomes :
         LET r == submit_application(payload, signature, outcome) IN
         /\ stdout' = Append(stdout, Line("Submitting application", <<>>))
         /\ posts' = Append(posts, r.request)
         /\ IF r.exits
            THEN /\ stderr' = Append(stderr, Line("Error submitting application", <<r.cause>>))
                 /\ exit_code' = <<1>>
                 /\ pc' = "exited"
                 /\ UNCHANGED response
            ELSE /\ response' = r.response
                 /\ pc' = "print_response"
                 /\ UNCHANGED <<stderr, exit_code>>
    /\ UNCHANGED <<env_set, vals, timestamp, payload, signature, callVars>>

\* Lines 103-107, then main returns and the process exits with status 0.
PrintResponse ==
    /\ pc = "print_response"
    /\ stdout' = stdout
           \o <<Line("Response Status", int_repr(response.status_code)),
                Line("Response Headers", <<>>),
                Line("Submission Receipt", <<>>),
                Line("Submission Complete", <<>>)>>
    /\ exit_code' = <<0>>
    /\ pc' = "done"
    /\ UNCHANGED <<env_set, vals, timestamp, payload, signature, posts,
                   response, stderr, callVars>>

Next ==
    \/ Start
    \/ ReadSecret
    \/ \E v \in EnvVarSet : ReadField(v)
    \/ GenerateTimestamp
    \/ CreatePayload
    \/ ComputeSignature
    \/ SubmitApplication
    \/ PrintResponse

Spec == Init /\ [][Next]_vars

(***************************************************************************)
(* Direct calls of create_payload, on arguments built up one character     *)
(* at a time.                                                              *)
(***************************************************************************)
\* The characters of an argument: quote, backslash, comma, colon, line
\* feed, the letter n.
ArgAlphabet == {34, 92, 44, 58, 10, 110}

\* The control character U+0001 and the non-ASCII letter U+00E9.
WideAlphabet == ArgAlphabet \cup {1, 233}

\* Arguments that are not strings.
NonStrings == {PyNone, PyInt(42), PyInt(-7), PyBytes}

\* The size of one argument: a string's length, 1 for another value.
ArgSize(v) == IF v.t = "str" THEN Len(v.s) ELSE 1

\* The size of six arguments.
ArgChars(a) ==
    ArgSize(a.timestamp) + ArgSize(a.name) + ArgSize(a.email)
    + ArgSize(a.resume_link) + ArgSize(a.repository_link)
    + ArgSize(a.action_run_link)

AllStrings(a) == \A f \in FieldSet : a[f].t = "str"

InitDirect ==
    /\ env_set = EnvVarSet
    /\ InitRun
    /\ InitCall

\* create_payload called with one argument a character longer.
CallLonger(f, c) ==
    /\ argsA[f].t = "str"
    /\ ArgChars(argsA) < MaxArgChars
    /\ argsA' = [argsA EXCEPT ![f] = Str(Append(@.s, c))]
    /\ outA' = CallCreatePayload(argsA')
    /\ UNCHANGED <<argsB, outB, runVars>>

\* create_payload called with an argument that is not a string.
CallNonString(f, v) ==
    /\ argsA[f] = Str(<<>>)
    /\ ArgChars(argsA) < MaxArgChars
    /\ argsA' = [argsA EXCEPT ![f] = v]
    /\ outA' = CallCreatePayload(argsA')
    /\ UNCHANGED <<argsB, outB, runVars>>

NextCall ==
    \/ \E f \in FieldSet, c \in WideAlphabet : CallLonger(f, c)
    \/ \E f \in FieldSet, v \in NonStrings : CallNonString(f, v)

SpecCall == InitDirect /\ [][NextCall]_vars

\* The parameters from the last one whose argument is not empty onwards.
FromLastFilled(a) ==
    LET filled == {i \in 1..Len(Fields) : a[Fields[i]].s # <<>>}
    IN {i \in 1..Len(Fields) : \A j \in filled : j <= i}

\* Two calls of create_payload, on strings.  The arguments are filled in
\* from the first parameter to the last, and the first call's before the
\* second's, so that each pair of calls is built in one way.
PairLongerA ==
    /\ ArgChars(argsA) + ArgChars(argsB) < MaxPairChars
    /\ argsB = EmptyArgs
    /\ \E i \in FromLastFilled(argsA), c \in ArgAlphabet :
         argsA' = [argsA EXCEPT ![Fields[i]] = Str(Append(@.s, c))]
    /\ outA' = CallCreatePayload(argsA')
    /\ UNCHANGED <<argsB, outB, runVars>>

PairLongerB ==
    /\ ArgChars(argsA) + ArgChars(argsB) < MaxPairChars
    /\ \E i \in FromLastFilled(argsB), c \in ArgAlphabet :
         argsB' = [argsB EXCEPT ![Fields[i]] = Str(Append(@.s, c))]
    /\ outB' = CallCreatePayload(argsB')
    /\ UNCHANGED <<argsA, outA, runVars>>

NextPair ==
    \/ PairLongerA
    \/ PairLongerB

SpecPair == InitDirect /\ [][NextPair]_vars

(***************************************************************************)
(* Properties.                                                             *)
(***************************************************************************)
HasLine(out, tag) == \E i \in 1..Len(out) : out[i].tag = tag

\* main has left the reading of the environment behind.
PastConfiguration ==
    pc \in {"generate_timestamp", "create_payload", "compute_signature",
            "submit_application", "print_response", "done"}

\* C1: in a run in which one of the six required variables is unset, no
\* POST is ever issued, the run never gets past the reading of the
\* environment, it can always take its next step until it has exited, and
\* when it has exited it has reported the configuration error and its exit
\* status is 1.
C1_UnsetVariableIsFatal ==
    env_set # EnvVarSet =>
        /\ posts = <<>>
        /\ ~PastConfiguration
        /\ exit_code = <<>> => ENABLED Next
        /\ exit_code # <<>> => exit_code = <<1>> /\ HasLine(stderr, "not set")

\* A run that read the secret and then found B12_EMAIL unset.
C1_Witness ==
    /\ "B12_EMAIL" \notin env_set
    /\ pc = "exited"
    /\ exit_code = <<1>>
    /\ vals["B12_SECRET"] # <<>>
    /\ stderr = <<Line("not set", <<"B12_EMAIL">>)>>

\* C2: a run exits with status 0, or prints 'Submission Complete', only
\* after a response whose status is 2xx.
C2_ExitZeroOnlyAfter2xx ==
    (exit_code = <<0>> \/ HasLine(stdout, "Submission Complete")) =>
        /\ response.kind = "response"
        /\ 200 <= response.status_code
        /\ response.status_code < 300

\* C3: the body of every request is the payload create_payload returned,
\* and its X-Signature-256 header is 'sha256=' followed by the HMAC-SHA256
\* tag of the UTF-8 bytes of that same body under the configured secret.
C3_SignedBytesAreSentBytes ==
    \A i \in 1..Len(posts) :
        /\ posts[i].data = payload
        /\ HasLine(stdout, "Canonical Payload")
        /\ posts[i].x_signature_256 =
               [prefix |-> S_sha256_eq,
                tag |-> hmac_sha256_hexdigest(encode_utf8(vals["B12_SECRET"]),
                                              encode_utf8(posts[i].data))]

\* A request was sent for a name and a secret that are not empty.
C3_Witness ==
    /\ Len(posts) = 1
    /\ vals["B12_NAME"] = <<97>>
    /\ vals["B12_SECRET"] = <<97, 32, 97>>

\* The number of backslashes that end at position i of s.
RECURSIVE BackslashRun(_, _)
BackslashRun(s, i) ==
    IF i >= 1 /\ s[i] = 92 THEN 1 + BackslashRun(s, i - 1) ELSE 0

\* The quotes of s that open or close a string: those not escaped.
StringQuotes(s) ==
    {i \in 1..Len(s) : s[i] = 34 /\ BackslashRun(s, i - 1) % 2 = 0}

\* The keys of a serialised flat object, in the order they appear: the
\* strings that a colon follows.  The k-th string lies between the quotes
\* that have 2k-2 and 2k-1 quotes before them.
ObjectKeys(s) ==
    LET quotes == StringQuotes(s)
        at(k) == CHOOSE i \in quotes : Cardinality({j \in quotes : j < i}) = k
        text(k) == SubSeq(s, at(2 * k - 2) + 1, at(2 * k - 1) - 1)
        is_key(k) == at(2 * k - 1) < Len(s) /\ s[at(2 * k - 1) + 1] = 58
        key_numbers == {k \in 1..(Cardinality(quotes) \div 2) : is_key(k)}
        nth(n) == CHOOSE k \in key_numbers :
                      Cardinality({j \in key_numbers : j < k}) = n - 1
    IN [n \in 1..Cardinality(key_numbers) |-> text(nth(n))]

\* C4: whatever the six arguments, what create_payload returns holds the
\* six keys, each once, in the order action_run_link, email, name,
\* repository_link, resume_link, timestamp.
C4_KeysInLexicographicOrder ==
    outA.raised = "" =>
        ObjectKeys(outA.value) =
            <<S_action_run_link, S_email, S_name, S_repository_link,
              S_resume_link, S_timestamp>>

\* A call whose name is a quote and whose email is None.
C4_Witness ==
    /\ argsA.name = Str(<<34>>)
    /\ argsA.email = PyNone
    /\ outA.raised = ""
    /\ Len(ObjectKeys(outA.value)) = Len(Fields)

\* C5: the prefix of the secret that is printed is strictly shorter than
\* the secret, whatever the secret's length.
C5_PrefixShorterThanSecret ==
    \A i \in 1..Len(stdout) :
        (stdout[i].tag = "Secret starts with" /\ vals["B12_SECRET"] # <<>>) =>
            /\ Len(stdout[i].text) < Len(vals["B12_SECRET"])
            /\ stdout[i].text # vals["B12_SECRET"]

\* C6: a run issues at most one POST: once the request has been made,
\* whatever came of it, the run is never again about to submit.
C6_AtMostOnePost ==
    /\ Len(posts) <= 1
    /\ posts # <<>> => pc \in {"print_response", "done", "exited"}
    /\ HasLine(stderr, "Error submitting application") =>
           pc = "exited" /\ exit_code = <<1>>

\* The one request timed out and the run has exited.
C6_Witness ==
    /\ Len(posts) = 1
    /\ pc = "exited"
    /\ stderr = <<Line("Error submitting application", <<"Timeout">>)>>

\* C7: once a payload has been serialised, or a request sent, every value
\* the run read from its environment is non-empty.
C7_NoEmptyValueIsUsed ==
    (payload # <<>> \/ posts # <<>>) =>
        \A v \in EnvVarSet : vals[v] # <<>>

\* C8: no tag is computed with an empty key: a run that has computed its
\* signature, or sent a request, has a secret that is not empty.
C8_NoTagWithEmptyKey ==
    /\ HasLine(stdout, "HMAC-SHA256 Signature") => signature.key # <<>>
    /\ \A i \in 1..Len(posts) : posts[i].x_signature_256.tag.key # <<>>

\* C9: create_payload returns a serialisation exactly when its six
\* arguments are strings, and signals InvalidPayloadError otherwise.
C9_NonStringIsRejected ==
    IF AllStrings(argsA)
    THEN outA.raised = ""
    ELSE outA.raised = "InvalidPayloadError" /\ outA.value = <<>>

\* C10: two calls of create_payload on strings return the same text
\* exactly when their arguments are equal, field by field.
C10_SerializationInjective ==
    /\ outA.raised = "" /\ outB.raised = ""
    /\ (outA.value = outB.value) <=> (argsA = argsB)

\* One name is a line feed, the other a backslash followed by n.
C10_Witness ==
    /\ argsA.name = Str(<<10>>)
    /\ argsB.name = Str(<<92, 110>>)
    /\ outA.value # outB.value

====
